---- MODULE Spec2Model ----
(***************************************************************************)
(* MailClient of msgraph-shared-mailbox: sendMail and the attachment       *)
(* transfer (inline attach or upload session with byte-range PUTs) for the *)
(* three attachment sources content / path / href.                         *)
(*                                                                         *)
(* One sendMail call is one thread of control; every `await` of the source *)
(* is one step of the model and pc names the await the call is suspended   *)
(* at.  Byte buffers are modelled by their length, all lengths in bytes    *)
(* with the program's own constants.  File names and content types only    *)
(* fill the name/contentType fields of the requests and are not modelled.  *)
(*                                                                         *)
(* Spec follows one sendMail call; SpecRecipients follows sendMail up to   *)
(* the recipient check over the inputs of the recipient parser;            *)
(* SpecSingleton follows MailClient.getInstance and the constructor;       *)
(* SpecGetMail follows one getMailById call.                               *)
(***************************************************************************)
EXTENDS Integers, Sequences, FiniteSets, TLC

(***************************************************************************)
(* Program constants                                                       *)
(***************************************************************************)
base == 320 * 1024

MAX_ATTACHMENT_SIZE == 150 * 1024 * 1024

defaultAttachmentUploadOptions ==
  [largeFileThreshold |-> 3 * 1024 * 1024, chunkSize |-> 320 * 1024]

(***************************************************************************)
(* Bounds of the model                                                     *)
(***************************************************************************)
\* attachments per mail
MaxAttachments == 2
\* range PUTs issued for one attachment before the model stops following it
MaxPuts == 11
\* blocks a download stream delivers before it ends
MaxReads == 3
\* getInstance calls and objects constructed, together
MaxCalls == 4
\* characters of a `to` string given to the recipient parser
MaxToLength == 4

(***************************************************************************)
(* Inputs                                                                  *)
(***************************************************************************)
\* options.attachmentUploadOptions as given to the constructor: the defaults,
\* the tests' options, a chunk size that is no multiple of 320 KiB, a chunk
\* size of zero, and a large multiple
OptionInputs ==
  { defaultAttachmentUploadOptions,
    [largeFileThreshold |-> 1024, chunkSize |-> 320 * 1024],
    [largeFileThreshold |-> 1024, chunkSize |-> 500000],
    [largeFileThreshold |-> 1024, chunkSize |-> 0],
    [largeFileThreshold |-> 3 * 1024 * 1024, chunkSize |-> 240 * base] }

\* byte lengths of in-memory contents and of local files
ContentSizes ==
  {0, 1, 1024, 1025, base + 1,
   defaultAttachmentUploadOptions.largeFileThreshold,
   defaultAttachmentUploadOptions.largeFileThreshold + 1,
   MAX_ATTACHMENT_SIZE, MAX_ATTACHMENT_SIZE + 1}

\* values a content-length header can carry
DeclaredSizes == {0, 1024, 1025, base + 1, MAX_ATTACHMENT_SIZE, MAX_ATTACHMENT_SIZE + 1}

\* lengths of the blocks a download stream delivers
BlockSizes == {1, 1024, base, MAX_ATTACHMENT_SIZE}

\* lengths of a body read in one piece by arrayBuffer()
BodySizes == {0, 1024, 1025, MAX_ATTACHMENT_SIZE, MAX_ATTACHMENT_SIZE + 1}

\* response statuses of a range PUT
PutStatuses == {200, 201, 202, 204, 429, 500}

\* a string is a sequence of characters; mail.to is a list of strings (a
\* single string s is handled by the code as the list [s])
ToInputs ==
  { <<>>,
    << <<>> >>,
    << <<" ", ";", " ">> >>,
    << <<"a">> >>,
    << <<"a", ";", " ", "b", ",", "a">> >> }

\* CredentialOptions given to getInstance and to the constructor
CredentialOptionInputs ==
  { [sharedMailbox |-> "a@host", attachmentUploadOptions |-> defaultAttachmentUploadOptions],
    [sharedMailbox |-> "b@host", attachmentUploadOptions |-> defaultAttachmentUploadOptions],
    [sharedMailbox |-> "a@host",
     attachmentUploadOptions |-> [largeFileThreshold |-> 1024, chunkSize |-> 500000]] }

\* a `value` / `attachments` property that is not there
Absent == [present |-> FALSE, value |-> <<>>]

\* ids given to getMailById, as strings of characters: empty, a Graph id, an
\* Internet Message ID in angle brackets, and two strings that only resemble one
IdInputs ==
  { <<>>,
    <<"A">>,
    <<"<", "m", "@", "h", ">">>,
    <<"<", "@", ">">>,
    <<"<", "m", "@", "h", ">", "x">> }

\* options of getMailById (select does not matter here)
GetMailOptionInputs ==
  [includeAttachments : {"omitted", "false", "true"},
   idType : {"omitted", "graph", "internetMessageId"}]

\* Graph ids of the messages a filter query can find
FoundIds == {<<"A">>, <<"B">>}

\* answers of the filter query: rejected, no list, an empty list, a first message
FilterResults ==
  {[outcome |-> "throws", id |-> <<>>], [outcome |-> "undefined", id |-> <<>>],
   [outcome |-> "empty", id |-> <<>>]}
    \cup [outcome : {"found"}, id : FoundIds]

\* answers of the attachment listing: rejected, or a body with or without `value`
ListingResults ==
  {[outcome |-> "throws", body |-> Absent], [outcome |-> "ok", body |-> Absent]}
    \cup [outcome : {"ok"},
          body : [present : {TRUE}, value : {<<>>, <<"f1">>, <<"f1", "f2">>}]]

\* characters of a `to` string: letters, the two separators, white space
Characters == {"a", "b", ";", ",", " "}

RECURSIVE StringsOfLength(_)
StringsOfLength(n) ==
  IF n = 0 THEN {<<>>}
  ELSE {Append(s, ch) : s \in StringsOfLength(n - 1), ch \in Characters}

\* mail.to for the recipient parser: the empty array, every single string of
\* up to MaxToLength characters, every array of two strings of at most one
\* character
RecipientInputs ==
  {<<>>}
    \cup {<<s>> : s \in UNION {StringsOfLength(n) : n \in 0..MaxToLength}}
    \cup [1..2 -> StringsOfLength(0) \cup StringsOfLength(1)]

NoContent == [kind |-> "none", len |-> 0]

\* attachment.content: undefined, a string or a Buffer, by byte length
Contents ==
  {NoContent, [kind |-> "string", len |-> 0], [kind |-> "string", len |-> 1]}
    \cup [kind : {"buffer"}, len : ContentSizes]

\* elements of mail.attachments; path and href are strings ("" stands for
\* undefined or the empty string, both falsy).  Every content alone, each
\* other source alone, and the combinations of several sources.
AttachmentSpecs ==
  [content : Contents, path : {""}, href : {""}]
    \cup [content : {NoContent}, path : {"/tmp/file"}, href : {"", "https://host/file"}]
    \cup [content : {NoContent}, path : {""}, href : {"ftp://host/file", "https://host/file"}]
    \cup [content : {[kind |-> "string", len |-> 0]},
          path : {"", "/tmp/file"},
          href : {"", "https://host/file"}]
    \cup [content : {[kind |-> "buffer", len |-> 1]},
          path : {"", "/tmp/file"},
          href : {"", "https://host/file"}]

(***************************************************************************)
(* Helpers                                                                 *)
(***************************************************************************)
Max(a, b) == IF a >= b THEN a ELSE b
Min(a, b) == IF a <= b THEN a ELSE b

\* `undefined` for the number-valued locals (size); valid sizes are >= 0
Undefined == -1

\* JavaScript truthiness of attachment.content / .path / .href
TruthyContent(c) == c.kind = "buffer" \/ (c.kind = "string" /\ c.len > 0)
TruthyString(s) == s # ""

\* Buffer.toString('base64'): length of the encoding of n bytes
Base64Length(n) == 4 * ((n + 2) \div 3)

\* (mutant of NormalizeChunkSize: rounds up to the next multiple)
NormalizeChunkSizeUp(chunkSize) == ((chunkSize + base - 1) \div base) * base

\* the chunk-size normalisation of the constructor, repeated in each upload method
NormalizeChunkSize(chunkSize) ==
  IF chunkSize % base # 0
    THEN Max(base, (chunkSize \div base) * base)
    ELSE chunkSize

\* response.ok of fetch
Ok(status) == status >= 200 /\ status <= 299

\* (mutant of ChunkAccepted: only the three listed statuses pass)
ChunkAcceptedListedOnly(status) == status \in {200, 201, 202}

\* the status test after each range PUT; TRUE means the chunk is taken as uploaded
ChunkAccepted(status) ==
  ~(~Ok(status) /\ status # 202 /\ status # 201 /\ status # 200)

\* (mutant of IsHttp: every scheme is taken)
IsHttpAny(href) == TRUE

\* /^https?:\/\//i.test(href)
IsHttp(href) == href = "https://host/file"

(***************************************************************************)
(* Errors                                                                  *)
(***************************************************************************)
NoError == [type |-> "none", status |-> 0]
NoRecipients == [type |-> "NoRecipients", status |-> 0]
AttachmentTooLarge == [type |-> "AttachmentTooLarge", status |-> 0]
ChunkUploadFailed(status) == [type |-> "ChunkUploadFailed", status |-> status]
\* a rejected remote call, fetch or file operation (error of the collaborator)
RemoteError == [type |-> "RemoteError", status |-> 0]

(***************************************************************************)
(* buildRecipients                                                         *)
(***************************************************************************)
IsSeparator(ch) == ch = ";" \/ ch = ","
IsSpace(ch) == ch = " "

\* p.split(/[;,]+/): the pieces between maximal runs of separators
RECURSIVE SplitFrom(_, _, _)
SplitFrom(p, i, piece) ==
  IF i > Len(p) THEN <<piece>>
  ELSE IF IsSeparator(p[i])
    THEN IF i > 1 /\ IsSeparator(p[i - 1])
           THEN SplitFrom(p, i + 1, piece)
           ELSE <<piece>> \o SplitFrom(p, i + 1, <<>>)
    ELSE SplitFrom(p, i + 1, Append(piece, p[i]))

Split(p) == SplitFrom(p, 1, <<>>)

\* (mutant of Trim: the piece is taken as it is)
TrimNothing(s) == s

RECURSIVE TrimLeft(_)
TrimLeft(s) == IF s # <<>> /\ IsSpace(Head(s)) THEN TrimLeft(Tail(s)) ELSE s

RECURSIVE TrimRight(_)
TrimRight(s) ==
  IF s # <<>> /\ IsSpace(s[Len(s)]) THEN TrimRight(SubSeq(s, 1, Len(s) - 1)) ELSE s

Trim(s) == TrimRight(TrimLeft(s))

Contains(seq, x) == \E i \in 1..Len(seq) : seq[i] = x

\* the addresses pushed by the two nested loops, in order
RECURSIVE Addresses(_)
Addresses(parts) ==
  IF parts = <<>> THEN <<>>
  ELSE LET split == Split(Head(parts))
           trimmed == [i \in 1..Len(split) |-> Trim(split[i])]
       IN SelectSeq(trimmed, LAMBDA a : a # <<>>) \o Addresses(Tail(parts))

\* (mutant of Unique: every address is kept)
UniqueKeepAll(addresses) == addresses

\* Array.from(new Set(addresses)): first occurrences, in insertion order
RECURSIVE Unique(_)
Unique(addresses) ==
  IF addresses = <<>> THEN <<>>
  ELSE LET init == Unique(SubSeq(addresses, 1, Len(addresses) - 1))
           last == addresses[Len(addresses)]
       IN IF Contains(init, last) THEN init ELSE Append(init, last)

\* the list of addresses; <<>> stands for the `undefined` the code returns
\* when no address is left
buildRecipients(input) == Unique(Addresses(input))

(***************************************************************************)
(* State                                                                   *)
(***************************************************************************)
VARIABLES
  attachmentUploadOptions, \* this.attachmentUploadOptions after the constructor
  pc,            \* the await sendMail is suspended at
  remaining,     \* elements of mail.attachments the loop has not taken yet
  attachment,    \* the loop variable of uploadAttachments
  calls,         \* remote calls of this send: create-draft and send-draft
  io,            \* calls made for the current attachment, by kind
  inline,        \* inline-attach requests of the current attachment
  sessionSize,   \* AttachmentItem.size of the created upload session
  puts,          \* range PUTs of the current attachment, in order
  lastStatus,    \* status of the latest range PUT response (0: the fetch rejected)
  contentLength, \* content.length / fileSize inside the large-upload methods
  size,          \* `size` of uploadAttachmentFromUrl
  offset,        \* `offset` of the chunk loops
  pending,       \* pending.length of the streaming loop
  chunkData,     \* chunkData.length of the file-stream loop
  total,         \* `total` of the buffering loop
  received,      \* bytes the download body has delivered so far
  reads,         \* blocks the download body has delivered so far
  loggerCalls,   \* invocations of logger.error
  logged,        \* the error passed to the latest logger.error call
  err,           \* the error sendMail has thrown
  to,            \* mail.to (until the draft is posted)
  toRecipients,  \* `toRecipients` of sendMail (until the draft is posted)
  draft,         \* `draft`: the response of the create-draft call
  sentId,        \* the message id in the path of the send-draft call
  result,        \* the value sendMail has returned
  instance,      \* MailClient._instance: 0 for null, else the object
  objects,       \* the MailClient objects constructed so far, by their configuration
  returns,       \* the getInstance calls so far: options given, object returned
  getMailPc,     \* the await getMailById is suspended at
  getMailArgs,   \* the arguments of the getMailById call
  message,       \* `message` of getMailById
  getMailCalls,  \* the remote calls of the getMailById call, in order
  getMailErr,    \* the error getMailById has thrown
  handles,       \* what the current transfer holds open: file handle, download reader
  probe,         \* the answer of the HEAD probe (until the download is requested)
  download,      \* how the download GET of the current attachment was answered
  sends,         \* the locals of each of the sends running side by side
  service        \* the mail service: drafts, their attachments, upload sessions

vars ==
  <<attachmentUploadOptions, pc, remaining, attachment, calls, io, inline,
    sessionSize, puts, lastStatus, contentLength, size, offset, pending,
    chunkData, total, received, reads, loggerCalls, logged, err, to,
    toRecipients, draft, sentId, result, instance, objects, returns, getMailPc,
    getMailArgs, message, getMailCalls, getMailErr, handles, probe, download,
    sends,
    service>>

\* the state of the attachment being transferred
attVars ==
  <<attachment, io, inline, sessionSize, puts, lastStatus, contentLength, size,
    offset, pending, chunkData, total, received, reads, handles, probe,
    download>>

\* the locals of sendMail next to the attachment loop
sendVars == <<to, toRecipients, draft, sentId, result>>

\* the state of the singleton accessor
singletonVars == <<instance, objects, returns>>

\* the state of a getMailById call
getMailVars == <<getMailPc, getMailArgs, message, getMailCalls, getMailErr>>

\* the state of the sends that run side by side, and of the mail service
concurrentVars == <<sends, service>>

\* what the transfer of an attachment never touches
otherVars == <<sendVars, singletonVars, getMailVars, concurrentVars>>

NoAttachment == [content |-> NoContent, path |-> "", href |-> ""]

NoIo ==
  [attach |-> 0, session |-> 0, head |-> 0, get |-> 0, stat |-> 0,
   readFile |-> 0, open |-> 0]

\* `draft` before the create-draft call has answered
NoDraft == [id |-> "", internetMessageId |-> ""]

\* messages the create-draft call can answer with
DraftResponses ==
  {[id |-> "AAMkAD1", internetMessageId |-> "<m1@host>"],
   [id |-> "AAMkAD2", internetMessageId |-> "<m2@host>"]}

\* sendMail has not returned
NoResult == [id |-> "", internetMessageId |-> ""]

\* getMailById before it is called
NoArgs == [id |-> <<>>, includeAttachments |-> "omitted", idType |-> "omitted"]

\* `message` before the lookup has answered
NoMessage == [id |-> <<>>, attachments |-> Absent]

\* the sends that run side by side on one MailClient
Senders == 1..2

\* the locals of a send that has not started: its pc, the id of its draft,
\* the length of the content it attaches, its uploadUrl, its offset, its error
NoSend ==
  [pc |-> "idle", draft |-> 0, length |-> 0, uploadUrl |-> 0, offset |-> 0,
   err |-> NoError]

\* the mail service before any send: no draft, no upload session
NoService == [drafts |-> <<>>, sessions |-> <<>>]

\* nothing is held open
NoHandles == [fd |-> FALSE, reader |-> FALSE]

\* no HEAD probe has been answered
NoProbe == [outcome |-> "none", header |-> [text |-> "absent", value |-> 0]]

largeFileThreshold == attachmentUploadOptions.largeFileThreshold

\* the constructor: defaults merged with the given options, chunk size normalised
Constructor(options) ==
  [largeFileThreshold |-> options.largeFileThreshold,
   chunkSize |-> NormalizeChunkSize(options.chunkSize)]

Init ==
  /\ \E options \in OptionInputs : attachmentUploadOptions = Constructor(options)
  /\ pc = "idle"
  /\ remaining = 0
  /\ attachment = NoAttachment
  /\ calls = [draft |-> 0, send |-> 0]
  /\ io = NoIo
  /\ inline = <<>>
  /\ sessionSize = Undefined
  /\ puts = <<>>
  /\ lastStatus = Undefined
  /\ contentLength = Undefined
  /\ size = Undefined
  /\ offset = 0
  /\ pending = 0
  /\ chunkData = 0
  /\ total = 0
  /\ received = 0
  /\ reads = 0
  /\ loggerCalls = 0
  /\ logged = NoError
  /\ err = NoError
  /\ to = <<>>
  /\ toRecipients = <<>>
  /\ draft = NoDraft
  /\ sentId = ""
  /\ result = NoResult
  /\ instance = 0
  /\ objects = <<>>
  /\ returns = <<>>
  /\ getMailPc = "idle"
  /\ getMailArgs = NoArgs
  /\ message = NoMessage
  /\ getMailCalls = <<>>
  /\ getMailErr = NoError
  /\ handles = NoHandles
  /\ probe = NoProbe
  /\ download = "none"
  /\ sends = [i \in Senders |-> NoSend]
  /\ service = NoService

\* (mutant of Throw: the catch block rethrows without reporting)
ThrowUnreported(error) ==
  /\ pc' = "thrown"
  /\ err' = error
  /\ UNCHANGED <<loggerCalls, logged>>

\* `throw` inside the try block of sendMail, then its catch block: the caught
\* error is reported through logger.error (which returns) and rethrown
Throw(error) ==
  /\ pc' = "thrown"
  /\ logged' = error
  /\ loggerCalls' = loggerCalls + 1
  /\ err' = error

\* a step that does not throw
Goto(label) ==
  /\ pc' = label
  /\ UNCHANGED <<err, loggerCalls, logged>>

(***************************************************************************)
(* The size decisions                                                      *)
(***************************************************************************)
\* (mutant of ExceedsMax: the limit is off by one)
ExceedsMaxOffByOne(length) == length > MAX_ATTACHMENT_SIZE + 1

\* `x > MAX_ATTACHMENT_SIZE`
ExceedsMax(length) == length > MAX_ATTACHMENT_SIZE

\* (mutant of IsSmall: a length equal to the threshold counts as large)
IsSmallStrict(length) == length < largeFileThreshold

\* (mutant of IsSmall: nothing counts as small)
IsSmallNever(length) == FALSE

\* `x <= this.attachmentUploadOptions.largeFileThreshold`
IsSmall(length) == length <= largeFileThreshold

\* (mutant of KnownTooLarge: the declared size is not checked)
KnownTooLargeUnchecked(known) == FALSE

\* `size !== undefined && size > MAX_ATTACHMENT_SIZE`
KnownTooLarge(known) == known # Undefined /\ ExceedsMax(known)

\* chunkSize as each upload method recomputes it
chunkSize == NormalizeChunkSize(attachmentUploadOptions.chunkSize)

(***************************************************************************)
(* sendMail                                                                *)
(***************************************************************************)
\* sendMail up to its first await: the recipients are built and checked
sendMail(mailTo, attachments) ==
  /\ pc = "idle"
  /\ to' = mailTo
  /\ toRecipients' = buildRecipients(mailTo)
  /\ IF Len(buildRecipients(mailTo)) = 0
       THEN Throw(NoRecipients) /\ UNCHANGED remaining
       ELSE Goto("createDraft") /\ remaining' = attachments
  /\ UNCHANGED <<attachmentUploadOptions, calls, attVars, draft, sentId, result,
                 singletonVars, getMailVars, concurrentVars>>

\* POST /users/{mailbox}/messages with the draft message; mail.to and
\* toRecipients are not used after it
CreateDraft(ok, response) ==
  /\ pc = "createDraft"
  /\ calls' = [calls EXCEPT !.draft = @ + 1]
  /\ to' = <<>>
  /\ toRecipients' = <<>>
  /\ IF ok THEN Goto("loop") /\ draft' = response
           ELSE Throw(RemoteError) /\ UNCHANGED draft
  /\ UNCHANGED <<attachmentUploadOptions, remaining, attVars, sentId, result,
                 singletonVars, getMailVars, concurrentVars>>

\* uploadAttachments returns: the list is empty or exhausted
AttachmentsDone ==
  /\ pc = "loop"
  /\ remaining = 0
  /\ Goto("sendDraft")
  /\ UNCHANGED <<attachmentUploadOptions, otherVars, remaining, calls, attVars>>

\* (mutant of SendDraft: the ids are returned without the send-draft call)
SendDraftSkipped(ok) ==
  /\ pc = "sendDraft"
  /\ Goto("returned")
  /\ result' = [id |-> draft.id, internetMessageId |-> draft.internetMessageId]
  /\ UNCHANGED <<attachmentUploadOptions, remaining, calls, attVars, to, toRecipients,
                 draft, sentId, singletonVars, getMailVars, concurrentVars>>

\* POST /users/{mailbox}/messages/{id}/send, then return the draft's ids
SendDraft(ok) ==
  /\ pc = "sendDraft"
  /\ calls' = [calls EXCEPT !.send = @ + 1]
  /\ sentId' = draft.id
  /\ IF ok
       THEN /\ Goto("returned")
            /\ result' = [id |-> draft.id, internetMessageId |-> draft.internetMessageId]
       ELSE Throw(RemoteError) /\ UNCHANGED result
  /\ UNCHANGED <<attachmentUploadOptions, remaining, attVars, to, toRecipients, draft,
                 singletonVars, getMailVars, concurrentVars>>

(***************************************************************************)
(* uploadAttachments: the loop takes the next attachment                   *)
(***************************************************************************)
\* the loop variable is bound to the next element; nothing has been done for it
Take(a) ==
  /\ pc = "loop"
  /\ remaining > 0
  /\ remaining' = remaining - 1
  /\ attachment' = a
  /\ io' = NoIo
  /\ inline' = <<>>
  /\ sessionSize' = Undefined
  /\ puts' = <<>>
  /\ lastStatus' = Undefined
  /\ size' = Undefined
  /\ offset' = 0
  /\ pending' = 0
  /\ chunkData' = 0
  /\ total' = 0
  /\ received' = 0
  /\ reads' = 0
  /\ handles' = NoHandles
  /\ probe' = NoProbe
  /\ download' = "none"
  /\ UNCHANGED <<attachmentUploadOptions, otherVars, calls>>

\* none of content, path, href is truthy: continue
SkipAttachment(a) ==
  /\ ~TruthyContent(a.content) /\ ~TruthyString(a.path) /\ ~TruthyString(a.href)
  /\ Take(a)
  /\ contentLength' = Undefined
  /\ Goto("loop")

\* entry of uploadLargeContent(content): size check, then the session request
UploadLargeContent(length) ==
  IF ExceedsMax(length)
    THEN Throw(AttachmentTooLarge)
    ELSE Goto("createSessionContent")

\* entry of uploadLargeFileByPath(fileSize): size check, then the session request
UploadLargeFileByPath(fileSize) ==
  IF ExceedsMax(fileSize)
    THEN Throw(AttachmentTooLarge)
    ELSE Goto("createSessionPath")

\* content branch: buf = the content as a Buffer
ContentAttachment(a) ==
  /\ TruthyContent(a.content)
  /\ Take(a)
  /\ contentLength' = a.content.len
  /\ IF ExceedsMax(a.content.len) THEN Throw(AttachmentTooLarge)
     ELSE IF IsSmall(a.content.len) THEN Goto("attachPost")
     ELSE UploadLargeContent(a.content.len)

\* path branch: the first await is fs.stat
PathAttachment(a) ==
  /\ ~TruthyContent(a.content) /\ TruthyString(a.path)
  /\ Take(a)
  /\ contentLength' = Undefined
  /\ Goto("stat")

\* href branch: uploadAttachmentFromUrl returns at once unless http/https
HrefAttachment(a) ==
  /\ ~TruthyContent(a.content) /\ ~TruthyString(a.path) /\ TruthyString(a.href)
  /\ Take(a)
  /\ contentLength' = Undefined
  /\ IF IsHttp(a.href) THEN Goto("head") ELSE Goto("loop")

(***************************************************************************)
(* Inline attach                                                           *)
(***************************************************************************)
\* POST .../attachments with the base64 encoding of the buffer in hand
AttachPost(ok) ==
  /\ pc = "attachPost"
  /\ io' = [io EXCEPT !.attach = @ + 1]
  /\ inline' = Append(inline, [bytes |-> contentLength,
                               contentBytes |-> Base64Length(contentLength)])
  /\ IF ok THEN Goto("loop") ELSE Throw(RemoteError)
  /\ UNCHANGED <<attachmentUploadOptions, otherVars, handles, probe, download, remaining, calls, attachment, sessionSize,
                 puts, lastStatus, contentLength, size, offset, pending, chunkData,
                 total, received, reads>>

(***************************************************************************)
(* Range PUTs                                                              *)
(***************************************************************************)
\* a fetch that rejects (recorded as status 0), or a response with a status
PutResponses ==
  [threw : {FALSE}, status : PutStatuses] \cup {[threw |-> TRUE, status |-> 0]}

\* (mutant of PutRequest: the total is the number of bytes sent so far)
PutRequestRunningTotal(start, end, declared, length, body) ==
  [start |-> start, end |-> end, total |-> end + 1, contentLength |-> length,
   body |-> body]

\* the PUT request: Content-Range `bytes start-end/total`, Content-Length, body
PutRequest(start, end, declared, length, body) ==
  [start |-> start, end |-> end, total |-> declared, contentLength |-> length,
   body |-> body]

\* (mutant of Put: the next range is sent along without awaiting the answer)
PutPipelined(request, resp, next) ==
  /\ Len(puts) < MaxPuts
  /\ puts' = puts \o <<request, [request EXCEPT !.start = request.end + 1,
                                                !.end = 2 * request.end - request.start + 1]>>
  /\ lastStatus' = resp.status
  /\ IF resp.threw THEN Throw(RemoteError)
     ELSE IF ~ChunkAccepted(resp.status) THEN Throw(ChunkUploadFailed(resp.status))
     ELSE Goto(next)

\* (mutant of Put: the response status is not tested)
PutIgnoringStatus(request, resp, next) ==
  /\ Len(puts) < MaxPuts
  /\ puts' = Append(puts, request)
  /\ lastStatus' = resp.status
  /\ IF resp.threw THEN Throw(RemoteError) ELSE Goto(next)

\* the request is sent and answered; the status test decides whether to go on
Put(request, resp, next) ==
  /\ Len(puts) < MaxPuts
  /\ puts' = Append(puts, request)
  /\ lastStatus' = resp.status
  /\ IF resp.threw THEN Throw(RemoteError)
     ELSE IF ~ChunkAccepted(resp.status) THEN Throw(ChunkUploadFailed(resp.status))
     ELSE Goto(next)

\* the PUT made the upload method throw
Failed(resp) == resp.threw \/ ~ChunkAccepted(resp.status)

\* the `for await` over the file stream is left by a throw: the two close
\* calls after the loop are skipped; leaving the loop destroys the read stream,
\* which closes the handle on its own, awaited by nobody: when sendMail throws
\* the handle is closed or still open
LeftToStream == \E closed \in BOOLEAN : handles' = [handles EXCEPT !.fd = ~closed]

\* (mutant of Advance: the offset stays, so the same range is sent again)
AdvanceNot(resp, newOffset, newPending) == UNCHANGED <<offset, pending>>

\* the offsets stay as they are when the PUT is not accepted
Advance(resp, newOffset, newPending) ==
  IF ~resp.threw /\ ChunkAccepted(resp.status)
    THEN offset' = newOffset /\ pending' = newPending
    ELSE UNCHANGED <<offset, pending>>

(***************************************************************************)
(* uploadLargeContent                                                      *)
(***************************************************************************)
\* POST .../attachments/createUploadSession with size = content.length
CreateSessionContent(ok) ==
  /\ pc = "createSessionContent"
  /\ io' = [io EXCEPT !.session = @ + 1]
  /\ sessionSize' = contentLength
  /\ offset' = 0
  /\ IF ~ok THEN Throw(RemoteError)
     ELSE IF 0 < contentLength THEN Goto("putContent")
     ELSE Goto("loop")
  /\ UNCHANGED <<attachmentUploadOptions, otherVars, handles, probe, download, remaining, calls, attachment, inline, puts,
                 lastStatus, contentLength, size, pending, chunkData, total, received,
                 reads>>

\* Math.min(offset + chunkSize, content.length)
EndExclusive(from, length) == Min(from + chunkSize, length)

\* one iteration of `while (offset < content.length)`
PutContent(resp) ==
  /\ pc = "putContent"
  /\ LET endExclusive == EndExclusive(offset, contentLength)
         chunk == endExclusive - offset
     IN /\ Put(PutRequest(offset, endExclusive - 1, contentLength, chunk, chunk), resp,
               IF endExclusive < contentLength THEN "putContent" ELSE "loop")
        /\ Advance(resp, endExclusive, pending)
  /\ UNCHANGED <<attachmentUploadOptions, otherVars, handles, probe, download, remaining, calls, attachment, io, inline,
                 sessionSize, contentLength, size, chunkData, total, received, reads>>

\* (mutant of Stat: a path that is missing or empty falls through to the href)
StatFallThrough(stats) ==
  /\ pc = "stat"
  /\ io' = [io EXCEPT !.stat = @ + 1]
  /\ IF ~stats.exists \/ ~stats.isFile \/ stats.size = 0
       THEN /\ IF IsHttp(attachment.href) THEN Goto("head") ELSE Goto("loop")
            /\ UNCHANGED contentLength
     ELSE /\ contentLength' = stats.size
          /\ IF ExceedsMax(stats.size) THEN Throw(AttachmentTooLarge)
             ELSE IF IsSmall(stats.size) THEN Goto("readFile")
             ELSE UploadLargeFileByPath(stats.size)
  /\ UNCHANGED <<attachmentUploadOptions, otherVars, handles, probe, download, remaining, calls, attachment, inline,
                 sessionSize, puts, lastStatus, size, offset, pending, chunkData,
                 total, received, reads>>

(***************************************************************************)
(* Local file: stat, then readFile or uploadLargeFileByPath.  The file is  *)
(* taken not to change during the send: readFile and the read stream       *)
(* deliver the stats.size bytes, the stream in reads of highWaterMark.     *)
(***************************************************************************)
\* fs.stat rejects, or resolves to a non-file, or to a regular file of some size
StatResults ==
  {[exists |-> FALSE, isFile |-> FALSE, size |-> 0],
   [exists |-> TRUE, isFile |-> FALSE, size |-> 4096]}
    \cup [exists : {TRUE}, isFile : {TRUE}, size : ContentSizes]

Stat(stats) ==
  /\ pc = "stat"
  /\ io' = [io EXCEPT !.stat = @ + 1]
  /\ IF ~stats.exists THEN Goto("loop") /\ UNCHANGED contentLength
     ELSE IF ~stats.isFile \/ stats.size = 0 THEN Goto("loop") /\ UNCHANGED contentLength
     ELSE /\ contentLength' = stats.size
          /\ IF ExceedsMax(stats.size) THEN Throw(AttachmentTooLarge)
             ELSE IF IsSmall(stats.size) THEN Goto("readFile")
             ELSE UploadLargeFileByPath(stats.size)
  /\ UNCHANGED <<attachmentUploadOptions, otherVars, handles, probe, download, remaining, calls, attachment, inline,
                 sessionSize, puts, lastStatus, size, offset, pending, chunkData,
                 total, received, reads>>

\* fs.readFile(path): fileContent, then the inline attach
ReadFile(ok) ==
  /\ pc = "readFile"
  /\ io' = [io EXCEPT !.readFile = @ + 1]
  /\ IF ok THEN Goto("attachPost") ELSE Throw(RemoteError)
  /\ UNCHANGED <<attachmentUploadOptions, otherVars, handles, probe, download, remaining, calls, attachment, inline,
                 sessionSize, puts, lastStatus, contentLength, size, offset, pending,
                 chunkData, total, received, reads>>

\* POST .../attachments/createUploadSession with size = fileSize
CreateSessionPath(ok) ==
  /\ pc = "createSessionPath"
  /\ io' = [io EXCEPT !.session = @ + 1]
  /\ sessionSize' = contentLength
  /\ IF ok THEN Goto("open") ELSE Throw(RemoteError)
  /\ UNCHANGED <<attachmentUploadOptions, otherVars, handles, probe, download, remaining, calls, attachment, inline, puts,
                 lastStatus, contentLength, size, offset, pending, chunkData, total,
                 received, reads>>

\* fs.open(filePath), createReadStream({highWaterMark: chunkSize}), offset = 0
OpenFile(ok) ==
  /\ pc = "open"
  /\ io' = [io EXCEPT !.open = @ + 1]
  /\ offset' = 0
  /\ IF ok THEN Goto("fileRead") ELSE Throw(RemoteError)
  /\ handles' = [handles EXCEPT !.fd = ok]
  /\ UNCHANGED <<attachmentUploadOptions, otherVars, probe, download, remaining, calls, attachment, inline,
                 sessionSize, puts, lastStatus, contentLength, size, pending,
                 chunkData, total, received, reads>>

\* length of the next chunk of the read stream: a read of highWaterMark bytes,
\* less at the end of the file, none when nothing is left or highWaterMark is 0
NextFileChunk(position, fileSize) == Max(0, Min(chunkSize, fileSize - position))

\* the `for await` takes the next chunk, or ends and the stream and handle are closed
FileRead(ok) ==
  /\ pc = "fileRead"
  /\ IF ~ok THEN Throw(RemoteError) /\ LeftToStream /\ UNCHANGED chunkData
     ELSE IF NextFileChunk(offset, contentLength) = 0
       THEN /\ Goto("loop")
            /\ handles' = [handles EXCEPT !.fd = FALSE]
            /\ UNCHANGED chunkData
     ELSE /\ Goto("filePut")
          /\ chunkData' = NextFileChunk(offset, contentLength)
          /\ UNCHANGED handles
  /\ UNCHANGED <<attachmentUploadOptions, otherVars, probe, download, remaining, calls, attachment, io, inline,
                 sessionSize, puts, lastStatus, contentLength, size, offset, pending,
                 total, received, reads>>

\* the body of the `for await`: PUT chunkData at offset
FilePut(resp) ==
  /\ pc = "filePut"
  /\ Put(PutRequest(offset, offset + chunkData - 1, contentLength, chunkData, chunkData),
         resp, "fileRead")
  /\ Advance(resp, offset + chunkData, pending)
  /\ IF Failed(resp) THEN LeftToStream ELSE UNCHANGED handles
  /\ UNCHANGED <<attachmentUploadOptions, otherVars, probe, download, remaining, calls, attachment, io, inline,
                 sessionSize, contentLength, size, chunkData, total, received, reads>>

(***************************************************************************)
(* uploadAttachmentFromUrl.  The lengths the headers declare and the       *)
(* length of the body are chosen independently: the code itself re-checks  *)
(* the downloaded length against the limit after a HEAD that declared less.*)
(***************************************************************************)
\* a content-length header: absent, not a number, or a number
Headers ==
  {[text |-> "absent", value |-> 0], [text |-> "abc", value |-> 0],
   [text |-> "number", value |-> -5]}
    \cup [text : {"number"}, value : DeclaredSizes]

\* (mutant of ParseContentLength: a negative number is taken as the size)
ParseContentLengthSigned(header, otherwise) ==
  IF header.text = "number" THEN header.value ELSE otherwise

\* `if (cl) { parsed = Number(cl); if (!isNaN(parsed) && parsed >= 0) size = parsed }`
ParseContentLength(header, otherwise) ==
  IF header.text = "number" /\ header.value >= 0 THEN header.value ELSE otherwise

\* fetch rejects, or resolves to a response
HeadResults ==
  {[outcome |-> "throws", header |-> [text |-> "absent", value |-> 0]],
   [outcome |-> "notOk", header |-> [text |-> "absent", value |-> 0]]}
    \cup [outcome : {"ok"}, header : Headers]

GetResults ==
  {[outcome |-> "throws", header |-> [text |-> "absent", value |-> 0]],
   [outcome |-> "notOk", header |-> [text |-> "absent", value |-> 0]],
   [outcome |-> "noBody", header |-> [text |-> "absent", value |-> 0]]}
    \cup [outcome : {"ok"}, header : Headers]

\* reader.read(): rejects, {done: true}, or a block of bytes
ReadResults ==
  {[outcome |-> "throws", length |-> 0], [outcome |-> "done", length |-> 0]}
    \cup [outcome : {"value"}, length : BlockSizes]

\* the HEAD probe and the two tests on the probed size
HeadProbe(head) ==
  /\ pc = "head"
  /\ io' = [io EXCEPT !.head = @ + 1]
  /\ LET probed == IF head.outcome = "ok"
                     THEN ParseContentLength(head.header, Undefined)
                     ELSE Undefined
     IN /\ size' = probed
        /\ IF KnownTooLarge(probed) THEN Throw(AttachmentTooLarge)
           ELSE IF probed # Undefined /\ IsSmall(probed) THEN Goto("getSmall")
           ELSE Goto("get")
  /\ probe' = head
  /\ UNCHANGED <<attachmentUploadOptions, otherVars, handles, download, remaining, calls, attachment, inline,
                 sessionSize, puts, lastStatus, contentLength, offset, pending,
                 chunkData, total, received, reads>>

\* (mutant of GetSmall: the body is read whether or not the response is ok)
GetSmallUnchecked(res) ==
  /\ pc = "getSmall"
  /\ io' = [io EXCEPT !.get = @ + 1]
  /\ IF res.outcome = "throws" THEN Throw(RemoteError)
     ELSE Goto("arrayBuffer")
  /\ probe' = NoProbe
  /\ download' = res.outcome
  /\ UNCHANGED <<attachmentUploadOptions, otherVars, handles, remaining, calls, attachment, inline,
                 sessionSize, puts, lastStatus, contentLength, size, offset, pending,
                 chunkData, total, received, reads>>

\* probed size <= threshold: `res = await fetch(href); if (!res.ok) return`
GetSmall(res) ==
  /\ pc = "getSmall"
  /\ io' = [io EXCEPT !.get = @ + 1]
  /\ IF res.outcome = "throws" THEN Throw(RemoteError)
     ELSE IF res.outcome = "notOk" THEN Goto("loop")
     ELSE Goto("arrayBuffer")
  /\ probe' = NoProbe
  /\ download' = res.outcome
  /\ UNCHANGED <<attachmentUploadOptions, otherVars, handles, remaining, calls, attachment, inline,
                 sessionSize, puts, lastStatus, contentLength, size, offset, pending,
                 chunkData, total, received, reads>>

\* `buf = Buffer.from(await res.arrayBuffer())`, size check, then the inline attach
ArrayBuffer(ok, length) ==
  /\ pc = "arrayBuffer"
  /\ IF ~ok THEN Throw(RemoteError) /\ UNCHANGED <<received, contentLength>>
     ELSE /\ received' = length
          /\ contentLength' = length
          /\ IF ExceedsMax(length) THEN Throw(AttachmentTooLarge) ELSE Goto("attachPost")
  /\ UNCHANGED <<attachmentUploadOptions, otherVars, handles, probe, download, remaining, calls, attachment, io, inline,
                 sessionSize, puts, lastStatus, size, offset, pending, chunkData,
                 total, reads>>

\* `res = await fetch(href)`, the download's own content-length, the size tests
Get(res) ==
  /\ pc = "get"
  /\ io' = [io EXCEPT !.get = @ + 1]
  /\ probe' = NoProbe
  /\ download' = res.outcome
  /\ IF res.outcome = "throws" THEN Throw(RemoteError) /\ UNCHANGED size
     ELSE IF res.outcome \in {"notOk", "noBody"} THEN Goto("loop") /\ UNCHANGED size
     ELSE LET known == IF size = Undefined
                         THEN ParseContentLength(res.header, Undefined)
                         ELSE size
          IN /\ size' = known
             /\ IF KnownTooLarge(known) THEN Throw(AttachmentTooLarge)
                ELSE IF known # Undefined /\ ~IsSmall(known) THEN Goto("createSessionUrl")
                ELSE Goto("bufferRead")
  /\ handles' = [handles EXCEPT !.reader = (pc' = "bufferRead")]
  /\ UNCHANGED <<attachmentUploadOptions, otherVars, remaining, calls, attachment, inline,
                 sessionSize, puts, lastStatus, contentLength, offset, pending,
                 chunkData, total, received, reads>>

\* POST .../attachments/createUploadSession with size = the declared size
CreateSessionUrl(ok) ==
  /\ pc = "createSessionUrl"
  /\ io' = [io EXCEPT !.session = @ + 1]
  /\ sessionSize' = size
  /\ offset' = 0
  /\ pending' = 0
  /\ IF ok THEN Goto("streamRead") ELSE Throw(RemoteError)
  /\ handles' = [handles EXCEPT !.reader = ok]
  /\ UNCHANGED <<attachmentUploadOptions, otherVars, probe, download, remaining, calls, attachment, inline, puts,
                 lastStatus, contentLength, size, chunkData, total, received, reads>>

\* reader.read() of the streaming loop; after the loop the remainder, if any
StreamRead(r) ==
  /\ pc = "streamRead"
  /\ r.outcome = "value" => reads < MaxReads
  /\ IF r.outcome = "throws" THEN Throw(RemoteError) /\ UNCHANGED <<pending, received, reads>>
     ELSE IF r.outcome = "done"
       THEN /\ IF pending > 0 THEN Goto("finalPut") ELSE Goto("loop")
            /\ UNCHANGED <<pending, received, reads>>
     ELSE /\ pending' = pending + r.length
          /\ received' = received + r.length
          /\ reads' = reads + 1
          /\ IF pending + r.length >= chunkSize THEN Goto("streamPut") ELSE Goto("streamRead")
  /\ handles' = [handles EXCEPT !.reader = (r.outcome = "value")]
  /\ UNCHANGED <<attachmentUploadOptions, otherVars, probe, download, remaining, calls, attachment, io, inline,
                 sessionSize, puts, lastStatus, contentLength, size, offset, chunkData,
                 total>>

\* (mutant of StreamPut: everything pending goes into one PUT)
StreamPutAll(resp) ==
  /\ pc = "streamPut"
  /\ Put(PutRequest(offset, offset + pending - 1, size, pending, pending), resp, "streamRead")
  /\ Advance(resp, offset + pending, 0)
  /\ UNCHANGED <<attachmentUploadOptions, otherVars, handles, probe, download, remaining, calls, attachment, io, inline,
                 sessionSize, contentLength, size, chunkData, total, received, reads>>

\* one iteration of `while (pending.length >= chunkSize)`
StreamPut(resp) ==
  /\ pc = "streamPut"
  /\ LET toSend == Min(chunkSize, pending)
     IN /\ Put(PutRequest(offset, offset + toSend - 1, size, toSend, toSend), resp,
               IF pending - toSend >= chunkSize THEN "streamPut" ELSE "streamRead")
        /\ Advance(resp, offset + toSend, pending - toSend)
  /\ UNCHANGED <<attachmentUploadOptions, otherVars, handles, probe, download, remaining, calls, attachment, io, inline,
                 sessionSize, contentLength, size, chunkData, total, received, reads>>

\* `if (pending.length > 0)`: the remainder, with end = size - 1
FinalPut(resp) ==
  /\ pc = "finalPut"
  /\ Put(PutRequest(offset, size - 1, size, pending, pending), resp, "loop")
  /\ UNCHANGED <<attachmentUploadOptions, otherVars, handles, probe, download, remaining, calls, attachment, io, inline,
                 sessionSize, contentLength, size, offset, pending, chunkData, total,
                 received, reads>>

\* reader.read() of the buffering loop; after the loop the choice by `total`
BufferRead(r) ==
  /\ pc = "bufferRead"
  /\ r.outcome = "value" => reads < MaxReads
  /\ IF r.outcome = "throws"
       THEN Throw(RemoteError) /\ UNCHANGED <<total, received, reads, contentLength>>
     ELSE IF r.outcome = "done"
       THEN /\ contentLength' = total
            /\ IF IsSmall(total) THEN Goto("attachPost") ELSE UploadLargeContent(total)
            /\ UNCHANGED <<total, received, reads>>
     ELSE /\ total' = total + r.length
          /\ received' = received + r.length
          /\ reads' = reads + 1
          /\ IF ExceedsMax(total + r.length) THEN Throw(AttachmentTooLarge)
             ELSE Goto("bufferRead")
          /\ UNCHANGED contentLength
  /\ handles' = [handles EXCEPT !.reader = (r.outcome = "value")]
  /\ UNCHANGED <<attachmentUploadOptions, otherVars, probe, download, remaining, calls, attachment, io, inline,
                 sessionSize, puts, lastStatus, size, offset, pending, chunkData>>

(***************************************************************************)
(* Specification                                                           *)
(***************************************************************************)
Next ==
  \/ \E mailTo \in ToInputs, n \in 0..MaxAttachments : sendMail(mailTo, n)
  \/ \E ok \in BOOLEAN, response \in DraftResponses : CreateDraft(ok, response)
  \/ AttachmentsDone
  \/ \E ok \in BOOLEAN : SendDraft(ok)
  \/ \E a \in AttachmentSpecs : SkipAttachment(a)
  \/ \E a \in AttachmentSpecs : ContentAttachment(a)
  \/ \E a \in AttachmentSpecs : PathAttachment(a)
  \/ \E a \in AttachmentSpecs : HrefAttachment(a)
  \/ \E ok \in BOOLEAN : AttachPost(ok)
  \/ \E ok \in BOOLEAN : CreateSessionContent(ok)
  \/ \E resp \in PutResponses : PutContent(resp)
  \/ \E stats \in StatResults : Stat(stats)
  \/ \E ok \in BOOLEAN : ReadFile(ok)
  \/ \E ok \in BOOLEAN : CreateSessionPath(ok)
  \/ \E ok \in BOOLEAN : OpenFile(ok)
  \/ \E ok \in BOOLEAN : FileRead(ok)
  \/ \E resp \in PutResponses : FilePut(resp)
  \/ \E head \in HeadResults : HeadProbe(head)
  \/ \E res \in GetResults : GetSmall(res)
  \/ \E ok \in BOOLEAN, length \in BodySizes : ArrayBuffer(ok, length)
  \/ \E res \in GetResults : Get(res)
  \/ \E ok \in BOOLEAN : CreateSessionUrl(ok)
  \/ \E r \in ReadResults : StreamRead(r)
  \/ \E resp \in PutResponses : StreamPut(resp)
  \/ \E resp \in PutResponses : FinalPut(resp)
  \/ \E r \in ReadResults : BufferRead(r)

Spec == Init /\ [][Next]_vars

(***************************************************************************)
(* The singleton accessor.  An object is its index in `objects`.           *)
(***************************************************************************)
\* the fields `new MailClient(options)` sets
MailClient(options) ==
  [sharedMailbox |-> options.sharedMailbox,
   attachmentUploadOptions |-> Constructor(options.attachmentUploadOptions)]

\* `new MailClient(options)` by the caller: another object, _instance untouched
New(options) ==
  /\ Len(objects) + Len(returns) < MaxCalls
  /\ objects' = Append(objects, MailClient(options))
  /\ UNCHANGED <<instance, returns>>
  /\ UNCHANGED <<attachmentUploadOptions, pc, remaining, calls, attVars, loggerCalls,
                 logged, err, sendVars, getMailVars, concurrentVars>>

\* (mutant of getInstance: a new object on every call)
getInstanceAlwaysNew(options) ==
  /\ Len(objects) + Len(returns) < MaxCalls
  /\ objects' = Append(objects, MailClient(options))
  /\ instance' = Len(objects) + 1
  /\ returns' = Append(returns, [options |-> options, object |-> instance'])
  /\ UNCHANGED <<attachmentUploadOptions, pc, remaining, calls, attVars, loggerCalls,
                 logged, err, sendVars, getMailVars, concurrentVars>>

\* MailClient.getInstance(options)
getInstance(options) ==
  /\ Len(objects) + Len(returns) < MaxCalls
  /\ IF instance = 0
       THEN /\ objects' = Append(objects, MailClient(options))
            /\ instance' = Len(objects) + 1
       ELSE UNCHANGED <<objects, instance>>
  /\ returns' = Append(returns, [options |-> options, object |-> instance'])
  /\ UNCHANGED <<attachmentUploadOptions, pc, remaining, calls, attVars, loggerCalls,
                 logged, err, sendVars, getMailVars, concurrentVars>>

NextSingleton ==
  \/ \E options \in CredentialOptionInputs : getInstance(options)
  \/ \E options \in CredentialOptionInputs : New(options)

SpecSingleton == Init /\ [][NextSingleton]_vars

(***************************************************************************)
(* The constructor's chunk-size normalisation over configured values       *)
(***************************************************************************)
\* configured values reach up to this many units of 320 KiB
MaxUnits == 6

\* options.attachmentUploadOptions.chunkSize as configured: the multiples of
\* 320 KiB from -1 to MaxUnits units, and values just below and above each
ChunkSizeInputs == {k * base + d : k \in -1..MaxUnits, d \in {-1, 0, 1, 1000}}

ChunkSizeOptionInputs ==
  {[sharedMailbox |-> "a@host",
    attachmentUploadOptions |-> [largeFileThreshold |-> 1024, chunkSize |-> x]] :
     x \in ChunkSizeInputs}

\* the first getInstance of the process, which runs the constructor
NextChunkSize ==
  \E options \in ChunkSizeOptionInputs : instance = 0 /\ getInstance(options)

SpecChunkSize == Init /\ [][NextChunkSize]_vars

(***************************************************************************)
(* getMailById                                                             *)
(***************************************************************************)
IdRequired == [type |-> "IdRequired", status |-> 0]
MessageNotFound == [type |-> "MessageNotFound", status |-> 0]

\* /^<[^>]+@[^>]+>$/.test(id)
LooksLikeInternetId(id) ==
  /\ Len(id) >= 5
  /\ id[1] = "<" /\ id[Len(id)] = ">"
  /\ \A k \in 2..(Len(id) - 1) : id[k] # ">"
  /\ \E k \in 3..(Len(id) - 2) : id[k] = "@"

\* `idType === 'internetMessageId' || looksLikeInternetId`
UseInternetMessageId(args) ==
  args.idType = "internetMessageId" \/ LooksLikeInternetId(args.id)

\* (mutant of IncludeAttachments: the attachments are always listed)
IncludeAttachmentsAlways == TRUE

\* `includeAttachments = false` by default
IncludeAttachments == getMailArgs.includeAttachments = "true"

\* a remote call of getMailById: the kind, the id in its path or filter, and
\* for the listing the `value` of its answer
GetMailCall(kind, target, value) == [kind |-> kind, target |-> target, value |-> value]

\* getMailById up to its first await
getMailById(id, options) ==
  /\ getMailPc = "idle"
  /\ getMailArgs' = [id |-> id, includeAttachments |-> options.includeAttachments,
                                idType |-> options.idType]
  /\ IF id = <<>>
       THEN getMailPc' = "thrown" /\ getMailErr' = IdRequired
       ELSE /\ getMailPc' = (IF UseInternetMessageId(getMailArgs') THEN "filter" ELSE "message")
            /\ UNCHANGED getMailErr
  /\ UNCHANGED <<message, getMailCalls>>
  /\ UNCHANGED <<attachmentUploadOptions, pc, remaining, calls, attVars, loggerCalls,
                 logged, err, sendVars, singletonVars, concurrentVars>>

\* the message found goes on to the listing or is returned
Found(msg) ==
  /\ message' = msg
  /\ getMailPc' = (IF IncludeAttachments THEN "attachments" ELSE "returned")
  /\ UNCHANGED getMailErr

\* GET /users/{mailbox}/messages?$filter=internetMessageId eq '...'
FilterLookup(list) ==
  /\ getMailPc = "filter"
  /\ getMailCalls' = Append(getMailCalls, GetMailCall("filter", getMailArgs.id, Absent))
  /\ IF list.outcome = "throws"
       THEN getMailPc' = "thrown" /\ getMailErr' = RemoteError /\ UNCHANGED message
     ELSE IF list.outcome # "found"
       THEN getMailPc' = "thrown" /\ getMailErr' = MessageNotFound /\ UNCHANGED message
     ELSE Found([id |-> list.id, attachments |-> Absent])
  /\ UNCHANGED getMailArgs
  /\ UNCHANGED <<attachmentUploadOptions, pc, remaining, calls, attVars, loggerCalls,
                 logged, err, sendVars, singletonVars, concurrentVars>>

\* GET /users/{mailbox}/messages/{id}: rejected, or the message of that id
MessageLookup(ok) ==
  /\ getMailPc = "message"
  /\ getMailCalls' = Append(getMailCalls, GetMailCall("message", getMailArgs.id, Absent))
  /\ IF ~ok
       THEN getMailPc' = "thrown" /\ getMailErr' = RemoteError /\ UNCHANGED message
       ELSE Found([id |-> getMailArgs.id, attachments |-> Absent])
  /\ UNCHANGED getMailArgs
  /\ UNCHANGED <<attachmentUploadOptions, pc, remaining, calls, attVars, loggerCalls,
                 logged, err, sendVars, singletonVars, concurrentVars>>

\* GET /users/{mailbox}/messages/{message.id or id}/attachments, then
\* `message.attachments = attRes.value || []`
ListAttachments(attRes) ==
  /\ getMailPc = "attachments"
  /\ getMailCalls' =
       Append(getMailCalls,
              GetMailCall("attachments",
                          IF UseInternetMessageId(getMailArgs) THEN message.id
                                                               ELSE getMailArgs.id,
                          attRes.body))
  /\ IF attRes.outcome = "throws"
       THEN getMailPc' = "thrown" /\ getMailErr' = RemoteError /\ UNCHANGED message
       ELSE /\ message' = [message EXCEPT !.attachments =
                             [present |-> TRUE,
                              value |-> IF attRes.body.present THEN attRes.body.value
                                                               ELSE <<>>]]
            /\ getMailPc' = "returned"
            /\ UNCHANGED getMailErr
  /\ UNCHANGED getMailArgs
  /\ UNCHANGED <<attachmentUploadOptions, pc, remaining, calls, attVars, loggerCalls,
                 logged, err, sendVars, singletonVars, concurrentVars>>

NextGetMail ==
  \/ \E id \in IdInputs, options \in GetMailOptionInputs : getMailById(id, options)
  \/ \E list \in FilterResults : FilterLookup(list)
  \/ \E ok \in BOOLEAN : MessageLookup(ok)
  \/ \E attRes \in ListingResults : ListAttachments(attRes)

SpecGetMail == Init /\ [][NextGetMail]_vars

(***************************************************************************)
(* Two sendMail calls side by side on one MailClient, each with one Buffer *)
(* attachment.  What they share is this.attachmentUploadOptions (read      *)
(* only) and the mail service; draft, uploadUrl and offset are locals of   *)
(* each call.  The service numbers its drafts and sessions as they come.   *)
(***************************************************************************)
\* lengths of the content each of the two sends attaches
ConcurrentSizes ==
  {1, 1025, base + 1, 2 * base + 1, defaultAttachmentUploadOptions.largeFileThreshold + 1}

\* (mutant of Offset: one offset for all sends)
OffsetShared(i) == sends[1].offset

\* the `offset` local of send i
Offset(i) == sends[i].offset

\* what the steps of the sends side by side leave alone
SingleSendVars ==
  <<attachmentUploadOptions, pc, remaining, calls, attVars, loggerCalls, logged, err,
    sendVars, singletonVars, getMailVars>>

\* sendMail of send i up to the create-draft request
StartSend(i, length) ==
  /\ sends[i].pc = "idle"
  /\ sends' = [sends EXCEPT ![i].pc = "createDraft", ![i].length = length]
  /\ UNCHANGED <<service, SingleSendVars>>

\* create-draft of send i answers; then the content branch of uploadAttachments
DraftCreated(i) ==
  /\ sends[i].pc = "createDraft"
  /\ service' = [service EXCEPT
                   !.drafts = Append(@, [attachments |-> <<>>, sent |-> FALSE])]
  /\ sends' = [sends EXCEPT
                 ![i].draft = Len(service.drafts) + 1,
                 ![i].pc = IF ExceedsMax(sends[i].length) THEN "thrown"
                           ELSE IF IsSmall(sends[i].length) THEN "attachPost"
                           ELSE "createSessionContent",
                 ![i].err = IF ExceedsMax(sends[i].length) THEN AttachmentTooLarge
                            ELSE NoError]
  /\ UNCHANGED SingleSendVars

\* the inline attach of send i, to messages/{draft.id}/attachments
AttachToDraft(i) ==
  /\ sends[i].pc = "attachPost"
  /\ service' = [service EXCEPT
                   !.drafts[sends[i].draft].attachments = Append(@, sends[i].length)]
  /\ sends' = [sends EXCEPT ![i].pc = "sendDraft"]
  /\ UNCHANGED SingleSendVars

\* createUploadSession of send i on messages/{draft.id}; uploadUrl and offset = 0
SessionCreated(i) ==
  /\ sends[i].pc = "createSessionContent"
  /\ service' = [service EXCEPT
                   !.sessions = Append(@, [message |-> sends[i].draft,
                                           size |-> sends[i].length,
                                           puts |-> <<>>])]
  /\ sends' = [sends EXCEPT
                 ![i].uploadUrl = Len(service.sessions) + 1,
                 ![i].offset = 0,
                 ![i].pc = IF 0 < sends[i].length THEN "putContent" ELSE "sendDraft"]
  /\ UNCHANGED SingleSendVars

\* one iteration of the chunk loop of send i: the PUT goes to its uploadUrl
PutChunk(i, resp) ==
  /\ sends[i].pc = "putContent"
  /\ Len(service.sessions[sends[i].uploadUrl].puts) < MaxPuts
  /\ LET endExclusive == EndExclusive(Offset(i), sends[i].length)
         chunk == endExclusive - Offset(i)
     IN /\ service' = [service EXCEPT
                         !.sessions[sends[i].uploadUrl].puts =
                           Append(@, PutRequest(Offset(i), endExclusive - 1,
                                                sends[i].length, chunk, chunk))]
        /\ sends' =
             IF resp.threw
               THEN [sends EXCEPT ![i].pc = "thrown", ![i].err = RemoteError]
             ELSE IF ~ChunkAccepted(resp.status)
               THEN [sends EXCEPT ![i].pc = "thrown",
                                  ![i].err = ChunkUploadFailed(resp.status)]
             ELSE [sends EXCEPT
                     ![i].offset = endExclusive,
                     ![i].pc = IF endExclusive < sends[i].length THEN "putContent"
                                                                 ELSE "sendDraft"]
  /\ UNCHANGED SingleSendVars

\* send-draft of send i, on messages/{draft.id}/send
SendDraftOf(i) ==
  /\ sends[i].pc = "sendDraft"
  /\ service' = [service EXCEPT !.drafts[sends[i].draft].sent = TRUE]
  /\ sends' = [sends EXCEPT ![i].pc = "returned"]
  /\ UNCHANGED SingleSendVars

\* the range PUTs of the concurrent sends are answered 202 or 500, or rejected
ConcurrentPutResponses ==
  {[threw |-> FALSE, status |-> 202], [threw |-> FALSE, status |-> 500],
   [threw |-> TRUE, status |-> 0]}

NextConcurrent ==
  \E i \in Senders :
    \/ \E length \in ConcurrentSizes : StartSend(i, length)
    \/ DraftCreated(i)
    \/ AttachToDraft(i)
    \/ SessionCreated(i)
    \/ \E resp \in ConcurrentPutResponses : PutChunk(i, resp)
    \/ SendDraftOf(i)

SpecConcurrent == Init /\ [][NextConcurrent]_vars

\* sendMail up to the recipient check, over the inputs of the recipient parser
NextRecipients == \E mailTo \in RecipientInputs : sendMail(mailTo, 0)

SpecRecipients == Init /\ [][NextRecipients]_vars

(***************************************************************************)
(* Properties                                                              *)
(***************************************************************************)
\* which source the loop transfers for the current attachment
FromContent == TruthyContent(attachment.content)
FromPath == ~TruthyContent(attachment.content) /\ TruthyString(attachment.path)
FromHref ==
  /\ ~TruthyContent(attachment.content)
  /\ ~TruthyString(attachment.path)
  /\ IsHttp(attachment.href)

\* the attachment's transfer has returned to the loop without raising
Transferred == pc \in {"loop", "sendDraft", "returned"}

\* C1, as stated: an attachment that gives only `content`, of byte length L <=
\* largeFileThreshold, has exactly one inline-attach call, no upload session and
\* no range PUT once its transfer is over.
C1_ContentGivenInline ==
  (/\ attachment.content.kind # "none"
   /\ attachment.path = "" /\ attachment.href = ""
   /\ attachment.content.len <= attachmentUploadOptions.largeFileThreshold
   /\ attachment.content.len <= MAX_ATTACHMENT_SIZE
   /\ Transferred)
  => (Len(inline) = 1 /\ io.session = 0 /\ puts = <<>>)

\* C1, amended: a content that is a Buffer or a non-empty string, of byte length
\* L <= largeFileThreshold, is sent by exactly one inline-attach call carrying
\* its L bytes, and never by an upload session or a range PUT (an empty string
\* counts as no content).
C1_TruthyContentInline ==
  (/\ FromContent
   /\ attachment.content.len <= attachmentUploadOptions.largeFileThreshold
   /\ attachment.content.len <= MAX_ATTACHMENT_SIZE)
  => /\ io.session = 0
     /\ puts = <<>>
     /\ Len(inline) = (IF pc = "attachPost" THEN 0 ELSE 1)
     /\ \A i \in 1..Len(inline) : inline[i].bytes = attachment.content.len

C1_Witness ==
  /\ FromContent
  /\ attachment.content.len = attachmentUploadOptions.largeFileThreshold
  /\ pc = "loop"
  /\ Len(inline) = 1

\* the range PUTs so far start at 0, each starts where the previous one ended,
\* none is empty
Contiguous(requests) ==
  /\ requests # <<>> => requests[1].start = 0
  /\ \A i \in 1..Len(requests) : requests[i].end >= requests[i].start
  /\ \A i \in 2..Len(requests) : requests[i].start = requests[i - 1].end + 1

\* ceil(n / d) for d > 0
CeilDiv(n, d) == (n + d - 1) \div d

\* C2: a content of length L, threshold < L <= 150 MiB, gets exactly one upload
\* session, declared with size L; its range PUTs have strictly increasing end
\* offsets without gap or overlap, and when the transfer is over they cover
\* [0, L-1] and number ceil(L / chunkSize).
C2_ContentChunked ==
  (/\ FromContent
   /\ attachment.content.len > attachmentUploadOptions.largeFileThreshold
   /\ attachment.content.len <= MAX_ATTACHMENT_SIZE)
  => /\ inline = <<>>
     /\ io.session = (IF pc = "createSessionContent" THEN 0 ELSE 1)
     /\ io.session = 1 => sessionSize = attachment.content.len
     /\ Contiguous(puts)
     /\ \A i \in 1..Len(puts) : puts[i].end <= attachment.content.len - 1
     /\ Transferred =>
          /\ puts[Len(puts)].end = attachment.content.len - 1
          /\ attachmentUploadOptions.chunkSize > 0
          /\ Len(puts) = CeilDiv(attachment.content.len, attachmentUploadOptions.chunkSize)

\* C2 restricted to instances whose chunk size is positive
C2_PositiveChunkSize == attachmentUploadOptions.chunkSize > 0 => C2_ContentChunked

\* C3: a length known upfront (Buffer length, or stats.size of a regular file)
\* above 150 MiB makes the send throw the too-large error before any inline
\* attach, file read, session request or range PUT for that attachment and
\* without send-draft.
C3_KnownLengthTooLarge ==
  (\/ FromContent /\ attachment.content.len > MAX_ATTACHMENT_SIZE
   \/ FromPath /\ io.stat = 1 /\ contentLength > MAX_ATTACHMENT_SIZE)
  => /\ pc = "thrown"
     /\ err = AttachmentTooLarge
     /\ inline = <<>> /\ puts = <<>>
     /\ io.attach = 0 /\ io.readFile = 0 /\ io.open = 0 /\ io.session = 0
     /\ calls.send = 0

C3_Witness ==
  /\ FromPath /\ io.stat = 1 /\ contentLength = MAX_ATTACHMENT_SIZE + 1
  /\ pc = "thrown"

\* C4: when the HEAD probe has declared more than 150 MiB (the size is set and
\* no GET has been made yet), the send has thrown the too-large error; no GET,
\* inline attach or session request is made for that URL.
C4_ProbeTooLarge ==
  (FromHref /\ size > MAX_ATTACHMENT_SIZE /\ io.get = 0)
  => /\ pc = "thrown"
     /\ err = AttachmentTooLarge
     /\ io.head = 1
     /\ io.attach = 0 /\ io.session = 0 /\ puts = <<>>

C4_Witness ==
  /\ FromHref /\ io.head = 1 /\ io.get = 0
  /\ size = MAX_ATTACHMENT_SIZE + 1
  /\ pc = "thrown"

\* C5: once a download has delivered more than 150 MiB the send has failed with
\* the too-large error, whatever length the headers declared.
C5_ReceivedTooLarge ==
  (FromHref /\ received > MAX_ATTACHMENT_SIZE)
  => (pc = "thrown" /\ err = AttachmentTooLarge)

\* C6: no inline-attach call carries more bytes than largeFileThreshold, and no
\* upload session is created with a size of at most largeFileThreshold.
C6_ThresholdDecides ==
  /\ \A i \in 1..Len(inline) : inline[i].bytes <= attachmentUploadOptions.largeFileThreshold
  /\ io.session > 0 => sessionSize > attachmentUploadOptions.largeFileThreshold

\* C7 (for a client whose chunk size is positive): a chunked transfer that has
\* returned without raising has sent range PUTs that start at 0, each start
\* where the previous one ended, the last one ending at the declared size - 1.
C7_SessionCompleted ==
  (attachmentUploadOptions.chunkSize > 0 /\ io.session > 0 /\ Transferred)
  => /\ puts # <<>>
     /\ puts[1].start = 0
     /\ \A i \in 2..Len(puts) : puts[i].start = puts[i - 1].end + 1
     /\ puts[Len(puts)].end = sessionSize - 1

\* C8: every range PUT has Content-Length = end - start + 1 = the number of
\* body bytes sent.
C8_ContentLengthMatchesRange ==
  \A i \in 1..Len(puts) :
    /\ puts[i].contentLength = puts[i].end - puts[i].start + 1
    /\ puts[i].contentLength = puts[i].body

\* a range PUT has been answered with this status
Answered == lastStatus # Undefined /\ lastStatus # 0

\* C9, as stated: a range PUT answered with a status other than 200, 201, 202
\* has raised the chunk-upload error carrying that status.
C9_OnlyListedStatusesAccepted ==
  (Answered /\ lastStatus \notin {200, 201, 202})
  => (pc = "thrown" /\ err = ChunkUploadFailed(lastStatus))

\* C9, amended: a range PUT answered with a status outside 200..299 has raised
\* the chunk-upload error carrying that status; a PUT answered with any status
\* in 200..299 (200, 201, 202 included) raises no chunk-upload error.
C9_Non2xxFails ==
  /\ (Answered /\ ~(lastStatus >= 200 /\ lastStatus <= 299))
       => (pc = "thrown" /\ err = ChunkUploadFailed(lastStatus))
  /\ (Answered /\ lastStatus >= 200 /\ lastStatus <= 299)
       => err.type # "ChunkUploadFailed"

C9_Witness ==
  /\ lastStatus = 429
  /\ pc = "thrown"
  /\ err = ChunkUploadFailed(429)

\* the latest range PUT failed: rejected, or answered outside 200..299
PutFailed == lastStatus # Undefined /\ ~(lastStatus >= 200 /\ lastStatus <= 299)

\* C10: a step that ends in a failed range PUT throws out of sendMail with
\* send-draft not invoked, and after a failed range PUT nothing more happens:
\* no further PUT, no later attachment, no send-draft.
C10_PutFailureAborts ==
  [][/\ PutFailed' =>
          /\ pc' = "thrown"
          /\ err' = (IF lastStatus' = 0 THEN RemoteError ELSE ChunkUploadFailed(lastStatus'))
          /\ calls'.send = 0
     /\ PutFailed => UNCHANGED vars]_vars

C10_Witness ==
  /\ PutFailed
  /\ pc = "thrown"
  /\ err.type = "ChunkUploadFailed"
  /\ remaining > 0
  /\ Len(puts) > 1
  /\ puts[Len(puts)].end < sessionSize - 1

\* nothing has been requested for the current attachment
NoAttachmentCall == io = NoIo /\ inline = <<>> /\ puts = <<>>

\* the order of the remote calls of one send: none when `to` resolves empty,
\* create-draft at most once and before every attachment call, send-draft at
\* most once, after the loop has taken every attachment, on the created draft,
\* and nothing after it
C11_CallOrder ==
  /\ calls.draft \in {0, 1} /\ calls.send \in {0, 1}
  /\ err = NoRecipients => (calls.draft = 0 /\ calls.send = 0 /\ NoAttachmentCall)
  /\ calls.draft = 0 => (calls.send = 0 /\ NoAttachmentCall /\ draft = NoDraft)
  /\ ~NoAttachmentCall => draft \in DraftResponses
  /\ pc = "sendDraft" => (remaining = 0 /\ calls.draft = 1 /\ calls.send = 0)
  /\ calls.send = 1 =>
       /\ remaining = 0
       /\ calls.draft = 1
       /\ draft \in DraftResponses /\ sentId = draft.id
       /\ pc \in {"returned", "thrown"}
  /\ pc = "returned" => calls.send = 1

\* the current attachment was skipped (nothing attached), or attached inline
\* once, or sent through one session whose PUTs reach the declared size - 1
FullyTransferredOrSkipped ==
  \/ io.session = 0 /\ Len(inline) <= 1 /\ puts = <<>>
  \/ /\ io.session = 1 /\ inline = <<>>
     /\ puts # <<>> /\ puts[Len(puts)].end = sessionSize - 1

\* C11 (for a client whose chunk size is positive): the remote calls of one
\* send are ordered recipient check, create-draft once, attachment calls,
\* send-draft; send-draft is invoked at most once, on the draft this send
\* created, and only when every attachment has been fully transferred or
\* skipped.
C11_SendAfterAttachments ==
  /\ C11_CallOrder
  /\ (attachmentUploadOptions.chunkSize > 0 /\ calls.send = 1)
       => FullyTransferredOrSkipped

\* remote calls made so far for the current attachment: inline attach, session
\* creation, HEAD and GET, reads of the download body, range PUTs
AttachmentCalls == io.attach + io.session + io.head + io.get + reads + Len(puts)

\* create-draft and send-draft calls made so far
DraftCalls == calls.draft + calls.send

\* C12: within one send every step issues at most one remote call and the
\* call has returned when the step is over; the loop takes the next attachment
\* only when the transfer of the previous one has returned, before any call
\* for the new one; a range PUT is issued only after the previous range PUT of
\* the session has been answered and accepted.
C12_OneCallAtATime ==
  [][/\ remaining' = remaining =>
          (DraftCalls' - DraftCalls) + (AttachmentCalls' - AttachmentCalls) \in {0, 1}
     /\ (remaining' # remaining /\ pc # "idle") =>
          /\ pc = "loop"
          /\ remaining' = remaining - 1
          /\ AttachmentCalls' = 0 /\ DraftCalls' = DraftCalls
     /\ Len(puts') > Len(puts) =>
          /\ Len(puts') = Len(puts) + 1
          /\ puts # <<>> => (lastStatus >= 200 /\ lastStatus <= 299)]_vars

C12_Witness ==
  /\ Len(puts) = 2
  /\ io.session = 1 /\ io.head = 1 /\ io.get = 1 /\ reads = 2
  /\ pc = "streamRead"

\* C13: whatever chunkSize was configured, the chunk size an upload method
\* works with once it has created a session is a positive multiple of 320 KiB.
C13_ChunkSizePositiveMultiple ==
  io.session > 0 => (chunkSize > 0 /\ chunkSize % base = 0)

\* C14: whichever step of sendMail failed (recipient check, create-draft, an
\* attachment transfer, send-draft), logger.error has been invoked exactly once
\* for the send, with the error that was raised, and that same error is the
\* one sendMail throws; a send that has not failed has not invoked it.
C14_FailureLoggedOnce ==
  /\ pc = "thrown" => (loggerCalls = 1 /\ err # NoError /\ logged = err)
  /\ pc # "thrown" => (loggerCalls = 0 /\ err = NoError /\ logged = NoError)

C14_Witness ==
  /\ pc = "thrown"
  /\ calls.send = 1
  /\ err = RemoteError
  /\ loggerCalls = 1

\* every character of every string of the input is a separator or white space
AllBlank(input) ==
  \A i \in 1..Len(input) :
    \A j \in 1..Len(input[i]) : IsSeparator(input[i][j]) \/ IsSpace(input[i][j])

\* C15: sendMail with a `to` that holds no address (the empty array, the empty
\* string, only separators and white space) throws the no-recipients error,
\* invokes logger.error exactly once, with that error, and makes no remote call.
C15_NoRecipientsFails ==
  [][(pc = "idle" /\ AllBlank(to')) =>
       /\ pc' = "thrown"
       /\ err' = NoRecipients
       /\ loggerCalls' = 1 /\ logged' = NoRecipients
       /\ calls' = [draft |-> 0, send |-> 0]]_vars

C15_Witness ==
  /\ to = << <<" ", ";", " ">> >>
  /\ pc = "thrown"
  /\ err = NoRecipients
  /\ loggerCalls = 1

\* the pieces of string p between separators: (i, j) with p[i..j] free of
\* separators and not extendable
Pieces(p) ==
  {ij \in (1..Len(p)) \X (1..Len(p)) :
     /\ ij[1] <= ij[2]
     /\ \A k \in ij[1]..ij[2] : ~IsSeparator(p[k])
     /\ ij[1] = 1 \/ IsSeparator(p[ij[1] - 1])
     /\ ij[2] = Len(p) \/ IsSeparator(p[ij[2] + 1])}

\* s without its leading and trailing white space
Stripped(s) ==
  LET inked == {k \in 1..Len(s) : ~IsSpace(s[k])}
  IN IF inked = {} THEN <<>>
     ELSE SubSeq(s, CHOOSE k \in inked : \A l \in inked : k <= l,
                    CHOOSE k \in inked : \A l \in inked : k >= l)

\* where address x occurs in the input: element e, piece starting at i
Occurrences(input, x) ==
  {ei \in (1..Len(input)) \X (1..(MaxToLength + 1)) :
     \E ij \in Pieces(input[ei[1]]) :
       ij[1] = ei[2] /\ Stripped(SubSeq(input[ei[1]], ij[1], ij[2])) = x}

\* occurrence a comes before occurrence b in the input
Before(a, b) == a[1] < b[1] \/ (a[1] = b[1] /\ a[2] < b[2])

C17_SingletonFirstCallWins ==
  /\ [](\A i \in 1..Len(returns) :
          returns[i].object # 0 /\ returns[i].object = returns[1].object)
  /\ [](returns # <<>> =>
          (instance = returns[1].object
             /\ objects[instance] = MailClient(returns[1].options)))
  /\ [](returns = <<>> => instance = 0)
  /\ [][instance # 0 => (instance' = instance /\ objects'[instance] = objects[instance])]_vars

C17_Witness ==
  /\ Len(objects) = 2
  /\ instance = 2
  /\ Len(returns) = 2
  /\ returns[1].options.sharedMailbox = "b@host"
  /\ returns[2].options.attachmentUploadOptions.chunkSize = 500000
  /\ objects[instance].sharedMailbox = "b@host"
  /\ objects[instance].attachmentUploadOptions = defaultAttachmentUploadOptions

\* the current attachment's source is unavailable: the stat of its path did
\* not give a non-empty regular file, or its URL is not http/https
SourceUnavailable ==
  \/ FromPath /\ io.stat = 1 /\ contentLength = Undefined
  \/ /\ ~TruthyContent(attachment.content) /\ ~TruthyString(attachment.path)
     /\ attachment.href = "ftp://host/file"

\* C18: an attachment whose path is missing, no regular file or empty, or
\* whose URL is not http/https, is passed over: no inline attach, session, PUT,
\* HEAD or GET is made for it, no error is raised for it, and the send goes on
\* with the loop and send-draft (only send-draft itself can still fail).
C18_UnavailableSourceOmitted ==
  SourceUnavailable =>
    /\ io = [NoIo EXCEPT !.stat = io.stat]
    /\ inline = <<>> /\ puts = <<>> /\ sessionSize = Undefined
    /\ pc \in {"loop", "sendDraft", "returned", "thrown"}
    /\ pc = "thrown" => (calls.send = 1 /\ err = RemoteError)
    /\ pc = "returned" => calls.send = 1

C18_Witness ==
  /\ FromPath /\ io.stat = 1 /\ contentLength = Undefined
  /\ pc = "returned"
  /\ calls.send = 1

\* the attachment-listing calls of the getMailById call
Listings == SelectSeq(getMailCalls, LAMBDA c : c.kind = "attachments")

\* C19: a getMailById call with includeAttachments true that has returned made
\* exactly one attachment-listing call, after the lookup, for the message
\* found, and returns the message with `attachments` set to the listing's
\* value (the empty list when the listing has none); with includeAttachments
\* false or omitted no listing call is made and `attachments` is not set.
C19_AttachmentsListedOnRequest ==
  /\ Len(Listings) <= 1
  /\ getMailArgs.includeAttachments # "true" =>
       /\ Listings = <<>>
       /\ message.attachments = Absent
  /\ (getMailArgs.includeAttachments = "true" /\ getMailPc = "returned") =>
       /\ Len(getMailCalls) = 2
       /\ getMailCalls[1].kind \in {"filter", "message"}
       /\ getMailCalls[2].kind = "attachments"
       /\ getMailCalls[2].target = message.id
       /\ message.attachments.present
       /\ message.attachments.value =
            (IF getMailCalls[2].value.present THEN getMailCalls[2].value.value ELSE <<>>)

C19_Witness ==
  /\ getMailPc = "returned"
  /\ getMailArgs.includeAttachments = "true"
  /\ getMailArgs.id = <<"<", "m", "@", "h", ">">>
  /\ message.id = <<"B">>
  /\ message.attachments = [present |-> TRUE, value |-> <<"f1", "f2">>]

Configured(i) == returns[i].options.attachmentUploadOptions.chunkSize
Used(i) == objects[returns[i].object].attachmentUploadOptions.chunkSize

\* C22: for a configured chunkSize x that is no multiple of 320 KiB the chunk
\* size used is max(320 KiB, floor(x / 320 KiB) * 320 KiB): a multiple of 320
\* KiB, equal to one unit when x is below one unit and otherwise the largest
\* multiple not above x.  A configured positive multiple is used unchanged.
C22_ChunkSizeRoundedDown ==
  \A i \in 1..Len(returns) :
    /\ Configured(i) % base # 0 =>
         /\ Used(i) % base = 0
         /\ Used(i) >= base
         /\ Configured(i) < base => Used(i) = base
         /\ Configured(i) >= base =>
              (Used(i) <= Configured(i) /\ Configured(i) < Used(i) + base)
    /\ (Configured(i) > 0 /\ Configured(i) % base = 0) => Used(i) = Configured(i)

C22_Witness ==
  /\ Len(returns) = 1
  /\ Configured(1) = 2 * base + 1000
  /\ Used(1) = 2 * base

\* the current attachment is a URL whose known length is above the threshold
KnownLarge == FromHref /\ size # Undefined /\ size > largeFileThreshold

\* the download is being streamed into the session
Streaming == KnownLarge /\ pc \in {"streamRead", "streamPut", "finalPut"}

\* C23: while a URL of known length above the threshold is streamed into a
\* session, every PUT made before the stream has ended carries exactly chunkSize
\* bytes and starts where the one before ended; a PUT is due exactly while the
\* pending buffer holds at least chunkSize bytes; once a received block has
\* been processed the buffer holds fewer than chunkSize bytes; the bytes PUT so
\* far plus the pending bytes are the bytes received; and when the stream has
\* ended a remainder has gone out in exactly one final PUT, after which every
\* received byte has been PUT.
C23_StreamingChunks ==
  /\ Streaming =>
       /\ \A i \in 1..Len(puts) :
            puts[i].body = chunkSize /\ puts[i].start = (i - 1) * chunkSize
       /\ offset = Len(puts) * chunkSize
       /\ offset + pending = received
       /\ pc = "streamPut" => pending >= chunkSize
       /\ (pc = "streamRead" /\ reads > 0) => pending < chunkSize
       /\ pc = "finalPut" => (0 < pending /\ pending < chunkSize)
  /\ (KnownLarge /\ io.session = 1 /\ Transferred) =>
       /\ offset + pending = received
       /\ reads > 0 => pending < chunkSize
       /\ pending = 0 =>
            (Len(puts) * chunkSize = received
             /\ \A i \in 1..Len(puts) : puts[i].body = chunkSize)
       /\ pending > 0 =>
            /\ (Len(puts) - 1) * chunkSize + pending = received
            /\ puts[Len(puts)].body = pending
            /\ puts[Len(puts)].start = offset
            /\ \A i \in 1..(Len(puts) - 1) : puts[i].body = chunkSize

C23_Witness ==
  /\ KnownLarge /\ io.session = 1
  /\ pc = "loop"
  /\ received = 2 * chunkSize + 1
  /\ Len(puts) = 3
  /\ puts[2].body = chunkSize
  /\ puts[3].body = 1

\* the download of the current URL attachment has been requested and neither
\* the probe nor the download's content-length header gave a length
UnknownLength == FromHref /\ io.get = 1 /\ size = Undefined

\* C24: for a URL attachment whose length neither the probe nor the download
\* reports, nothing is attached, no session created and no range PUT made while
\* the stream is being read; when the stream has ended the next request is the
\* inline attach if the number of bytes observed is at most the threshold and
\* the session request otherwise; an inline attach carries the observed bytes,
\* and a session declares the observed length as its size.
C24_UnknownLengthBuffered ==
  /\ []((UnknownLength /\ pc = "bufferRead") =>
          (io.attach = 0 /\ io.session = 0 /\ inline = <<>> /\ puts = <<>>))
  /\ [][(UnknownLength /\ pc = "bufferRead" /\ pc' \notin {"bufferRead", "thrown"}) =>
          /\ received' = received
          /\ pc' = (IF received <= attachmentUploadOptions.largeFileThreshold
                      THEN "attachPost" ELSE "createSessionContent")]_vars
  /\ []((UnknownLength /\ io.attach = 1) =>
          /\ received <= attachmentUploadOptions.largeFileThreshold
          /\ Len(inline) = 1 /\ inline[1].bytes = received
          /\ io.session = 0 /\ puts = <<>>)
  /\ []((UnknownLength /\ io.session = 1) =>
          /\ received > attachmentUploadOptions.largeFileThreshold
          /\ sessionSize = received
          /\ io.attach = 0 /\ inline = <<>>
          /\ \A i \in 1..Len(puts) : puts[i].total = received)

C24_Witness ==
  /\ UnknownLength
  /\ reads = 2
  /\ received = 1025
  /\ io.session = 1
  /\ sessionSize = 1025
  /\ Len(puts) = 1
  /\ pc = "loop"

\* the HEAD probe has been made and gave no length: the request was rejected,
\* the response was not ok, or its content-length was missing, no number, or
\* negative
ProbeFailed ==
  /\ io.head = 1
  /\ \/ probe.outcome \in {"throws", "notOk"}
     \/ /\ probe.outcome = "ok"
        /\ (probe.header.text # "number" \/ probe.header.value < 0)

\* C25: after a HEAD probe that gave no length no error has been raised or
\* reported, the length is unknown, and the next thing that happens is the
\* download GET.
C25_ProbeFailureNotFatal ==
  /\ [](ProbeFailed =>
          /\ pc = "get"
          /\ size = Undefined
          /\ err = NoError /\ logged = NoError /\ loggerCalls = 0)
  /\ [][ProbeFailed => io'.get = io.get + 1]_vars

C25_Witness ==
  /\ ProbeFailed
  /\ probe.outcome = "ok"
  /\ probe.header = [text |-> "number", value |-> -5]
  /\ pc = "get"
  /\ io.get = 0

\* C26, as stated: when sendMail has returned or thrown, the file handle opened
\* for a chunked local-file transfer and the reader of a URL download are
\* released.
C26_HandlesReleased ==
  pc \in {"returned", "thrown"} => (~handles.fd /\ ~handles.reader)

\* what does hold: a send that returns holds nothing open
C26_ReleasedOnReturn ==
  pc = "returned" => (~handles.fd /\ ~handles.reader)

\* the k-th range PUT of a content of L bytes sent by a send that runs alone
SoloPut(L, k) ==
  LET start == (k - 1) * chunkSize
      endExclusive == Min(start + chunkSize, L)
  IN PutRequest(start, endExclusive - 1, L, endExclusive - start, endExclusive - start)

\* the sends whose draft is d, and the sends whose upload session is s
SendsOfDraft(d) == {i \in Senders : sends[i].draft = d}
SendsOfSession(s) == {i \in Senders : sends[i].uploadUrl = s}

\* C27: with two sends side by side on one MailClient, under every
\* interleaving, every draft belongs to one send and holds only what that send
\* attached inline; every upload session belongs to one send, is a session of
\* that send's draft with that send's content length, and has received exactly
\* the range PUTs that send makes alone, in order (start, end, total, bytes);
\* and a send that has gone on to send-draft has made all of them.
C27_SendsIndependent ==
  /\ \A d \in 1..Len(service.drafts) :
       /\ Cardinality(SendsOfDraft(d)) = 1
       /\ \A i \in SendsOfDraft(d) :
            /\ Len(service.drafts[d].attachments) <= 1
            /\ \A k \in 1..Len(service.drafts[d].attachments) :
                 service.drafts[d].attachments[k] = sends[i].length
            /\ service.drafts[d].sent <=> (sends[i].pc = "returned")
  /\ \A s \in 1..Len(service.sessions) :
       /\ Cardinality(SendsOfSession(s)) = 1
       /\ \A i \in SendsOfSession(s) :
            /\ service.sessions[s].message = sends[i].draft
            /\ service.sessions[s].size = sends[i].length
            /\ service.drafts[sends[i].draft].attachments = <<>>
            /\ \A k \in 1..Len(service.sessions[s].puts) :
                 service.sessions[s].puts[k] = SoloPut(sends[i].length, k)
            /\ sends[i].pc \in {"sendDraft", "returned"} =>
                 /\ Len(service.sessions[s].puts) * chunkSize >= sends[i].length
                 /\ (Len(service.sessions[s].puts) - 1) * chunkSize < sends[i].length

C27_Witness ==
  /\ sends[1].pc = "returned" /\ sends[2].pc = "returned"
  /\ sends[1].draft = 2 /\ sends[2].draft = 1
  /\ sends[1].uploadUrl = 1 /\ sends[2].uploadUrl = 2
  /\ Len(service.sessions[1].puts) = 3
  /\ Len(service.sessions[2].puts) = 2
  /\ service.sessions[1].message = 2

\* C28: an attachment sent by chunked transfer has exactly one upload session,
\* requested before its first range PUT; the total in the Content-Range of
\* every PUT is the size declared in the session request; and the declared
\* size does not change while the attachment is transferred.
C28_OneSessionFixedSize ==
  /\ [](/\ io.session <= 1
        /\ puts # <<>> => (io.session = 1 /\ sessionSize # Undefined)
        /\ \A i \in 1..Len(puts) : puts[i].total = sessionSize)
  /\ [][/\ (puts = <<>> /\ puts' # <<>>) => io.session = 1
        /\ (io.session = 1 /\ io'.session = 1) => sessionSize' = sessionSize]_vars

C28_Witness ==
  /\ FromPath
  /\ io.session = 1
  /\ sessionSize = base + 1
  /\ Len(puts) = 2
  /\ puts[1].total = base + 1 /\ puts[2].total = base + 1
  /\ pc = "loop"

\* every range PUT but the last carries exactly chunkSize bytes, and none is empty
FullChunksExceptLast ==
  \A i \in 1..Len(puts) :
    /\ puts[i].body > 0
    /\ i < Len(puts) => puts[i].body = chunkSize

\* C29, as stated: in every chunked transfer every range PUT other than the
\* last carries exactly the normalized chunk size, a multiple of 320 KiB; only
\* the last may be shorter; no range PUT carries zero bytes.
C29_FullChunksExceptLast ==
  puts # <<>> => (chunkSize % base = 0 /\ FullChunksExceptLast)

\* what does hold: the same, whenever the chunk size in use is positive
C29_FullChunksWhenPositive ==
  (puts # <<>> /\ chunkSize > 0) => (chunkSize % base = 0 /\ FullChunksExceptLast)

\* the lookup getMailById made first: by filter, or by the direct message path
FilterLookupMade == getMailCalls[1].kind = "filter"
DirectLookupMade == getMailCalls[1].kind = "message" /\ getMailCalls[1].target = getMailArgs.id

\* C30, as stated: an idType that is given decides the lookup ('graph': the id
\* is used in the direct message path; 'internetMessageId': lookup by filter),
\* and only without an idType is the id inspected: the filter lookup is used
\* iff the id looks like <...@...>.
C30_IdTypeDecides ==
  getMailCalls # <<>> =>
    /\ getMailArgs.idType = "graph" => DirectLookupMade
    /\ getMailArgs.idType = "internetMessageId" => FilterLookupMade
    /\ getMailArgs.idType = "omitted" =>
         (IF LooksLikeInternetId(getMailArgs.id) THEN FilterLookupMade
                                                  ELSE DirectLookupMade)

\* what does hold: the filter lookup is used iff idType is 'internetMessageId'
\* or the id looks like <...@...>, whatever idType says
C30_LookupAsCoded ==
  getMailCalls # <<>> =>
    (IF getMailArgs.idType = "internetMessageId" \/ LooksLikeInternetId(getMailArgs.id)
       THEN FilterLookupMade ELSE DirectLookupMade)

\* what has been done for the current attachment with its path, and with its href
PathCalls == io.stat + io.readFile + io.open
HrefCalls == io.head + io.get

\* C31, as stated: of content, path and href at most one is transferred, by the
\* precedence content, path, href: with a content given, the path is not read
\* and the href is not fetched; with a path given and no content, the href is
\* not fetched, also when the path is missing or empty; with none of the three
\* nothing is called.
C31_SourcePrecedence ==
  /\ attachment.content.kind # "none" => (PathCalls = 0 /\ HrefCalls = 0)
  /\ (attachment.content.kind = "none" /\ attachment.path # "") => HrefCalls = 0
  /\ (attachment.content.kind = "none" /\ attachment.path = "" /\ attachment.href = "")
       => NoAttachmentCall
  /\ ~(PathCalls > 0 /\ HrefCalls > 0)

\* C31, amended: the same precedence, decided by truthiness: a content that is
\* a Buffer or a non-empty string keeps path and href from being read or
\* fetched, and what is attached or PUT is the content; without such a content
\* a non-empty path keeps the href from being fetched, also when the path is
\* missing, no file, or empty; with no such content, no path and no href
\* nothing is called; and never are both a path read and a href fetched.
C31_TruthySourcePrecedence ==
  /\ FromContent =>
       /\ PathCalls = 0 /\ HrefCalls = 0
       /\ \A i \in 1..Len(inline) : inline[i].bytes = attachment.content.len
       /\ io.session = 1 => sessionSize = attachment.content.len
  /\ FromPath => HrefCalls = 0
  /\ (~TruthyContent(attachment.content) /\ attachment.path = "" /\ attachment.href = "")
       => NoAttachmentCall
  /\ ~(PathCalls > 0 /\ HrefCalls > 0)
  /\ (~FromContent /\ ~FromPath /\ ~FromHref) => (inline = <<>> /\ puts = <<>>)

C31_Witness ==
  /\ ~TruthyContent(attachment.content)
  /\ attachment.path = "/tmp/file"
  /\ attachment.href = "https://host/file"
  /\ io.stat = 1 /\ io.readFile = 0 /\ io.open = 0
  /\ HrefCalls = 0
  /\ inline = <<>> /\ puts = <<>>
  /\ pc = "loop"

\* the download GET of the current URL attachment was answered not ok, or,
\* outside the branch of a probed size within the threshold, without a body
GetRefused ==
  /\ FromHref
  /\ \/ download = "notOk"
     \/ download = "noBody" /\ ~(size # Undefined /\ size <= largeFileThreshold)

\* C32: a download GET answered not ok (or, outside the probe-known-small
\* branch, without a body) raises and reports no error and takes the send back
\* to the attachment loop; for that attachment there is no inline attach, no
\* session and no range PUT, then or later; the send goes on, and if it throws
\* afterwards it is send-draft that failed.
C32_RefusedDownloadSkipped ==
  /\ [](GetRefused =>
          /\ io.attach = 0 /\ io.session = 0 /\ inline = <<>> /\ puts = <<>>
          /\ pc \in {"loop", "sendDraft", "returned", "thrown"}
          /\ pc = "thrown" => calls.send = 1
          /\ pc = "returned" => calls.send = 1)
  /\ [][(io'.get = io.get + 1 /\ GetRefused') =>
          /\ pc' = "loop"
          /\ err' = NoError
          /\ loggerCalls' = loggerCalls]_vars

C32_Witness ==
  /\ GetRefused
  /\ download = "notOk"
  /\ size = 1024
  /\ io.head = 1 /\ io.get = 1
  /\ pc = "returned"
  /\ calls.send = 1
  /\ err = NoError

\* an iteration of a chunk loop whose range PUT was accepted moves the offset
\* forward (and, when streaming, shortens the pending buffer)
IterationProgresses ==
  /\ (pc = "putContent" /\ pc' # "thrown") => offset' > offset
  /\ (pc = "filePut" /\ pc' # "thrown") => offset' > offset
  /\ (pc = "streamPut" /\ pc' # "thrown") => (offset' > offset /\ pending' < pending)

\* C33, as stated, for the chunk loops: whatever chunkSize and threshold are
\* configured, every iteration of a chunk loop makes progress, so that a loop
\* over L bytes ends after finitely many range PUTs and sendMail terminates.
C33_ChunkLoopProgress == [][IterationProgresses]_vars

\* what does hold: every iteration makes progress when the chunk size in use
\* is positive
C33_ProgressWhenPositive == [][chunkSize > 0 => IterationProgresses]_vars

====
